---- MODULE Spec2Model ----
(***************************************************************************)
(* The LS-8 style virtual machine of src/cpu.py: class CPU with its        *)
(* loader, its opcode handlers and the fetch / trace / dispatch loop of    *)
(* run().  Python semantics are kept: integers are unbounded, a list       *)
(* index i of a list of length n is accepted for -n <= i < n (negative     *)
(* indices count from the end) and raises IndexError otherwise, and an     *)
(* uncaught exception ends the process.                                    *)
(***************************************************************************)
EXTENDS Integers, Sequences, FiniteSets, TLC

\* arg is the program argument of the command line as load() found it:
\* "unread" before load(), then "given" or "missing"
VARIABLES ram, reg, pc, running, out, status, hist, arg

vars == <<ram, reg, pc, running, out, status, hist, arg>>

(***************************************************************************)
(* Opcodes, src/cpu.py lines 6-26.                                         *)
(***************************************************************************)
HLT == 1
LDI == 130
PRN == 71
MUL == 162
ADD == 160
PUSH == 69
POP == 70
CALL == 80
RET == 17
CMP == 167
JMP == 84
JEQ == 85
JNE == 86

\* len(self.ram) and len(self.reg) as built by __init__
RamLen == 256
RegLen == 8

\* the keys of the dictionary built by _init_cmds
cmds == {HLT, LDI, PRN, MUL, ADD, PUSH, POP, CALL, RET, CMP, JMP, JEQ, JNE}

(***************************************************************************)
(* Bounds of the model.                                                    *)
(***************************************************************************)
\* longest generated program, in instructions
MaxInstrs == 2
\* most dispatch cycles followed in one run
MaxCycles == 10
\* most direct calls of handle_sub a user of the class makes
MaxDirectCalls == 1
\* most dispatch cycles followed in one run of a memory-filling program
LongCycles == 260

(***************************************************************************)
(* Python list indexing.                                                   *)
(***************************************************************************)
PyOK(i, n) == i >= 0 - n /\ i < n
PyIdx(i, n) == IF i < 0 THEN i + n ELSE i

RamOK(a) == PyOK(a, RamLen)
RegOK(r) == PyOK(r, RegLen)
RamIdx(a) == PyIdx(a, RamLen)
RegIdx(r) == PyIdx(r, RegLen)

\* an uncaught IndexError leaves the object as it is at the raise
Raise(c) == [c EXCEPT !.exc = "IndexError"]

\* self.ram[register]; callers test RamOK first
ram_read(c, register) == c.ram[RamIdx(register)]

\* self.ram[register] = value; callers test RamOK first
ram_write(c, register, value) == [c EXCEPT !.ram[RamIdx(register)] = value]

get_stack_pointer(c) == c.reg[RegIdx(0 - 1)]

inc_stack_pointer(c) == [c EXCEPT !.reg[RegIdx(0 - 1)] = c.reg[RegIdx(0 - 1)] + 1]

dec_stack_pointer(c) == [c EXCEPT !.reg[RegIdx(0 - 1)] = c.reg[RegIdx(0 - 1)] - 1]

(***************************************************************************)
(* Handlers.  Each takes the object c = [ram, reg, pc, running, out, exc]  *)
(* and returns it as the handler leaves it; exc names the exception the    *)
(* handler raised, "none" when it returned.                                *)
(***************************************************************************)
handle_mul(c) ==
  IF ~RamOK(c.pc + 1) \/ ~RamOK(c.pc + 2) THEN Raise(c) ELSE
  LET reg_a == ram_read(c, c.pc + 1)
      reg_b == ram_read(c, c.pc + 2)
  IN IF ~RegOK(reg_a) \/ ~RegOK(reg_b) THEN Raise(c)
     ELSE [c EXCEPT !.reg[RegIdx(reg_a)] = c.reg[RegIdx(reg_a)] * c.reg[RegIdx(reg_b)],
                    !.pc = c.pc + 3]

\* handle_add that assigns instead of adding
handle_add_assign(c) ==
  IF ~RamOK(c.pc + 1) \/ ~RamOK(c.pc + 2) THEN Raise(c) ELSE
  LET reg_a == ram_read(c, c.pc + 1)
      reg_b == ram_read(c, c.pc + 2)
  IN IF ~RegOK(reg_a) \/ ~RegOK(reg_b) THEN Raise(c)
     ELSE [c EXCEPT !.reg[RegIdx(reg_a)] = c.reg[RegIdx(reg_b)],
                    !.pc = c.pc + 3]

handle_add(c) ==
  IF ~RamOK(c.pc + 1) \/ ~RamOK(c.pc + 2) THEN Raise(c) ELSE
  LET reg_a == ram_read(c, c.pc + 1)
      reg_b == ram_read(c, c.pc + 2)
  IN IF ~RegOK(reg_a) \/ ~RegOK(reg_b) THEN Raise(c)
     ELSE [c EXCEPT !.reg[RegIdx(reg_a)] = c.reg[RegIdx(reg_a)] + c.reg[RegIdx(reg_b)],
                    !.pc = c.pc + 3]

\* registered under no opcode by _init_cmds, so no cycle of run() calls it;
\* only a user of the class does (CallSub)
handle_sub(c) ==
  IF ~RamOK(c.pc + 1) \/ ~RamOK(c.pc + 2) THEN Raise(c) ELSE
  LET reg_a == ram_read(c, c.pc + 1)
      reg_b == ram_read(c, c.pc + 2)
  IN IF ~RegOK(reg_a) \/ ~RegOK(reg_b) THEN Raise(c)
     ELSE [c EXCEPT !.reg[RegIdx(reg_a)] = c.reg[RegIdx(reg_a)] - c.reg[RegIdx(reg_b)],
                    !.pc = c.pc + 3]

handle_halt(c) == [c EXCEPT !.running = FALSE, !.pc = c.pc + 1]

\* ldi that advances over one operand only
ldi_pc2(c) ==
  IF ~RamOK(c.pc + 1) \/ ~RamOK(c.pc + 2) THEN Raise(c) ELSE
  LET register == ram_read(c, c.pc + 1)
      value == ram_read(c, c.pc + 2)
  IN IF ~RegOK(register) THEN Raise(c)
     ELSE [c EXCEPT !.reg[RegIdx(register)] = value, !.pc = c.pc + 2]

ldi(c) ==
  IF ~RamOK(c.pc + 1) \/ ~RamOK(c.pc + 2) THEN Raise(c) ELSE
  LET register == ram_read(c, c.pc + 1)
      value == ram_read(c, c.pc + 2)
  IN IF ~RegOK(register) THEN Raise(c)
     ELSE [c EXCEPT !.reg[RegIdx(register)] = value, !.pc = c.pc + 3]

\* handle_print that leaves the program counter where it is
handle_print_nopc(c) ==
  IF ~RamOK(c.pc + 1) THEN Raise(c) ELSE
  LET register == ram_read(c, c.pc + 1)
  IN IF ~RegOK(register) THEN Raise(c)
     ELSE [c EXCEPT !.out = Append(c.out, c.reg[RegIdx(register)])]

handle_print(c) ==
  IF ~RamOK(c.pc + 1) THEN Raise(c) ELSE
  LET register == ram_read(c, c.pc + 1)
  IN IF ~RegOK(register) THEN Raise(c)
     ELSE [c EXCEPT !.out = Append(c.out, c.reg[RegIdx(register)]), !.pc = c.pc + 2]

\* _stack_push that writes at the old stack pointer, then decrements
stack_push_postdec(c, value) ==
  IF ~RamOK(get_stack_pointer(c)) THEN Raise(c)
  ELSE dec_stack_pointer(ram_write(c, get_stack_pointer(c), value))

\* _stack_push: decrement, then write at the new stack pointer
stack_push(c, value) ==
  LET d == dec_stack_pointer(c)
  IN IF ~RamOK(get_stack_pointer(d)) THEN Raise(d)
     ELSE ram_write(d, get_stack_pointer(d), value)

\* _set_equal_flag with the GT and LT bits exchanged
set_equal_flag_swapped(c, cmp_status) ==
  IF cmp_status = "EQ" THEN [c EXCEPT !.reg[RegIdx(0 - 2)] = 1]
  ELSE IF cmp_status = "GT" THEN [c EXCEPT !.reg[RegIdx(0 - 2)] = 4]
  ELSE IF cmp_status = "LT" THEN [c EXCEPT !.reg[RegIdx(0 - 2)] = 2]
  ELSE c

\* _set_equal_flag
set_equal_flag(c, cmp_status) ==
  IF cmp_status = "EQ" THEN [c EXCEPT !.reg[RegIdx(0 - 2)] = 1]
  ELSE IF cmp_status = "GT" THEN [c EXCEPT !.reg[RegIdx(0 - 2)] = 2]
  ELSE IF cmp_status = "LT" THEN [c EXCEPT !.reg[RegIdx(0 - 2)] = 4]
  ELSE c

\* _stack_pop that increments before it reads
stack_pop_incfirst(c) ==
  LET d == inc_stack_pointer(c)
  IN IF ~RamOK(get_stack_pointer(d)) THEN [c |-> Raise(d), val |-> 0]
     ELSE [c |-> d, val |-> ram_read(d, get_stack_pointer(d))]

\* _stack_pop: read at the stack pointer, then increment; the object and the
\* value returned
stack_pop(c) ==
  IF ~RamOK(get_stack_pointer(c)) THEN [c |-> Raise(c), val |-> 0]
  ELSE [c |-> inc_stack_pointer(c), val |-> ram_read(c, get_stack_pointer(c))]

\* handle_pop that clears the cell it popped
handle_pop_clear(c) ==
  IF ~RamOK(c.pc + 1) THEN Raise(c) ELSE
  LET register == ram_read(c, c.pc + 1)
      p == stack_pop(c)
  IN IF p.c.exc # "none" THEN p.c
     ELSE IF ~RegOK(register) THEN Raise(p.c)
     ELSE [p.c EXCEPT !.reg[RegIdx(register)] = p.val, !.pc = c.pc + 2,
                      !.ram[RamIdx(get_stack_pointer(c))] = 0]

handle_pop(c) ==
  IF ~RamOK(c.pc + 1) THEN Raise(c) ELSE
  LET register == ram_read(c, c.pc + 1)
      p == stack_pop(c)
  IN IF p.c.exc # "none" THEN p.c
     ELSE IF ~RegOK(register) THEN Raise(p.c)
     ELSE [p.c EXCEPT !.reg[RegIdx(register)] = p.val, !.pc = c.pc + 2]

handle_push(c) ==
  IF ~RamOK(c.pc + 1) THEN Raise(c) ELSE
  LET register == ram_read(c, c.pc + 1)
  IN IF ~RegOK(register) THEN Raise(c)
     ELSE LET p == stack_push(c, c.reg[RegIdx(register)])
          IN IF p.exc # "none" THEN p ELSE [p EXCEPT !.pc = c.pc + 2]

\* handle_call that pushes the address of its own operand byte
handle_call_pc1(c) ==
  IF ~RamOK(c.pc + 1) THEN Raise(c) ELSE
  LET next_instruction == c.pc + 1
      subroutine == ram_read(c, c.pc + 1)
      p == stack_push(c, next_instruction)
  IN IF p.exc # "none" THEN p
     ELSE IF ~RegOK(subroutine) THEN Raise(p)
     ELSE [p EXCEPT !.pc = p.reg[RegIdx(subroutine)]]

handle_call(c) ==
  IF ~RamOK(c.pc + 1) THEN Raise(c) ELSE
  LET next_instruction == c.pc + 2
      subroutine == ram_read(c, c.pc + 1)
      p == stack_push(c, next_instruction)
  IN IF p.exc # "none" THEN p
     ELSE IF ~RegOK(subroutine) THEN Raise(p)
     ELSE [p EXCEPT !.pc = p.reg[RegIdx(subroutine)]]

handle_ret(c) ==
  LET p == stack_pop(c)
  IN IF p.c.exc # "none" THEN p.c ELSE [p.c EXCEPT !.pc = p.val]

\* is_equal_flag that tests for any flag bit
is_equal_flag_nonzero(c) == c.reg[RegIdx(0 - 2)] # 0

is_equal_flag(c) == c.reg[RegIdx(0 - 2)] = 1

\* the three-way result computed by handle_cmp
cmp_result(first_value, second_value) ==
  IF first_value = second_value THEN "EQ"
  ELSE IF first_value > second_value THEN "GT"
  ELSE IF first_value < second_value THEN "LT"
  ELSE "None"

handle_cmp(c) ==
  IF ~RamOK(c.pc + 1) THEN Raise(c) ELSE
  IF ~RegOK(ram_read(c, c.pc + 1)) THEN Raise(c) ELSE
  IF ~RamOK(c.pc + 2) THEN Raise(c) ELSE
  IF ~RegOK(ram_read(c, c.pc + 2)) THEN Raise(c) ELSE
  LET first_value == c.reg[RegIdx(ram_read(c, c.pc + 1))]
      second_value == c.reg[RegIdx(ram_read(c, c.pc + 2))]
      f == set_equal_flag(c, cmp_result(first_value, second_value))
  IN [f EXCEPT !.pc = c.pc + 3]

\* handle_jmp that takes the operand byte as the address
handle_jmp_direct(c) ==
  IF ~RamOK(c.pc + 1) THEN Raise(c) ELSE
  LET register == ram_read(c, c.pc + 1)
  IN IF ~RegOK(register) THEN Raise(c)
     ELSE [c EXCEPT !.pc = register]

handle_jmp(c) ==
  IF ~RamOK(c.pc + 1) THEN Raise(c) ELSE
  LET register == ram_read(c, c.pc + 1)
  IN IF ~RegOK(register) THEN Raise(c)
     ELSE [c EXCEPT !.pc = c.reg[RegIdx(register)]]

handle_jne(c) ==
  IF ~is_equal_flag(c) THEN handle_jmp(c) ELSE [c EXCEPT !.pc = c.pc + 2]

handle_jeq(c) ==
  IF is_equal_flag(c) THEN handle_jmp(c) ELSE [c EXCEPT !.pc = c.pc + 2]

\* trace(): an opcode outside the table clears running and returns; otherwise
\* the line printed reads ram at pc, pc + 1 and pc + 2
trace(c) ==
  IF ram_read(c, c.pc) \notin cmds THEN [c EXCEPT !.running = FALSE]
  ELSE IF ~RamOK(c.pc + 1) \/ ~RamOK(c.pc + 2) THEN Raise(c)
  ELSE c

\* handle_cmd() that returns instead of exiting on an opcode outside the table
handle_cmd_noexit(c, command) ==
  IF command \notin cmds THEN c
  ELSE CASE command = HLT -> handle_halt(c)
         [] command = LDI -> ldi(c)
         [] command = PRN -> handle_print(c)
         [] command = MUL -> handle_mul(c)
         [] command = ADD -> handle_add(c)
         [] command = PUSH -> handle_push(c)
         [] command = POP -> handle_pop(c)
         [] command = CALL -> handle_call(c)
         [] command = RET -> handle_ret(c)
         [] command = CMP -> handle_cmp(c)
         [] command = JMP -> handle_jmp(c)
         [] command = JEQ -> handle_jeq(c)
         [] command = JNE -> handle_jne(c)

\* handle_cmd(): sys.exit(1) on an opcode outside the table, else the handler
handle_cmd(c, command) ==
  IF command \notin cmds THEN [c EXCEPT !.exc = "SystemExit"]
  ELSE CASE command = HLT -> handle_halt(c)
         [] command = LDI -> ldi(c)
         [] command = PRN -> handle_print(c)
         [] command = MUL -> handle_mul(c)
         [] command = ADD -> handle_add(c)
         [] command = PUSH -> handle_push(c)
         [] command = POP -> handle_pop(c)
         [] command = CALL -> handle_call(c)
         [] command = RET -> handle_ret(c)
         [] command = CMP -> handle_cmp(c)
         [] command = JMP -> handle_jmp(c)
         [] command = JEQ -> handle_jeq(c)
         [] command = JNE -> handle_jne(c)

\* one pass of the body of the while loop of run()
run_cycle(c) ==
  IF ~RamOK(c.pc) THEN Raise(c) ELSE
  LET command == c.ram[RamIdx(c.pc)]
      t == trace(c)
  IN IF t.exc # "none" THEN t ELSE handle_cmd(t, command)

(***************************************************************************)
(* The loader.  A line of the program file, comment removed and stripped,  *)
(* is a sequence of binary digits; the empty sequence is a blank line.     *)
(***************************************************************************)
RECURSIVE int2(_)
int2(digits) ==
  IF Len(digits) = 0 THEN 0
  ELSE 2 * int2(SubSeq(digits, 1, Len(digits) - 1)) + digits[Len(digits)]

\* the for loop of load(): a line that is not blank is stored at the value
\* address has when the loop reaches it, which is the starting address plus
\* the number of lines stored before it.  The store to an address that is
\* not an index of the list raises IndexError and ends the loop (load_raises);
\* the stores made before it stay, and such an address is no cell of mem.
load_lines(mem, lines, address) ==
  LET stored == {k \in 1..Len(lines) : Len(lines[k]) # 0}
      at == [k \in stored |-> address + Cardinality({j \in stored : j < k})]
  IN [a \in DOMAIN mem |->
        LET here == {k \in stored : RamIdx(at[k]) = a}
        IN IF here = {} THEN mem[a]
           ELSE int2(lines[CHOOSE k \in here : \A j \in here : j <= k])]

\* the for loop of load() raises IndexError: one of the addresses it stores
\* to, address, address + 1, ..., is not an index of the list
load_raises(mem, lines, address) ==
  LET stored == {k \in 1..Len(lines) : Len(lines[k]) # 0}
  IN \E i \in 0..(Cardinality(stored) - 1) : ~RamOK(address + i)

(***************************************************************************)
(* Programs given to the loader.                                           *)
(***************************************************************************)
\* the instructions the generated programs are made of
InstrSet ==
  { <<LDI, 0, 250>>, <<LDI, 1, 10>>, <<LDI, 7, 0>>, <<LDI, 6, 1>>, <<LDI, 8, 1>>,
    <<ADD, 0, 1>>, <<ADD, 0, 0>>, <<MUL, 0, 1>>,
    <<PUSH, 0>>, <<PUSH, 7>>, <<POP, 0>>, <<POP, 1>>,
    <<CALL, 0>>, <<RET>>,
    <<CMP, 0, 1>>, <<CMP, 1, 0>>, <<CMP, 0, 0>>, <<CMP, 6, 7>>,
    <<JMP, 0>>, <<JEQ, 0>>, <<JNE, 0>>,
    <<PRN, 0>>, <<HLT>>, <<255>> }

\* every program of at most k instructions of InstrSet
RECURSIVE Progs(_)
Progs(k) ==
  IF k = 0 THEN {<< >>}
  ELSE LET P == Progs(k - 1) IN P \cup {p \o i : p \in P, i \in InstrSet}

\* n copies of the instruction instr, one after the other
Repeat(instr, n) ==
  [i \in 1..(n * Len(instr)) |-> instr[((i - 1) % Len(instr)) + 1]]

\* one instruction more than memory holds
ProgTooLong == Repeat(<<PRN, 0>>, 129)
\* print 8 + 9
ProgSum == <<LDI, 0, 8, LDI, 1, 9, ADD, 0, 1, PRN, 0, HLT>>
\* 250 + 10 and 250 * 10
ProgWrap == <<LDI, 0, 250, LDI, 1, 10, ADD, 0, 1, LDI, 0, 250, MUL, 0, 1, HLT>>
\* push 5, overwrite with 99, pop
ProgPushPop == <<LDI, 0, 5, PUSH, 0, LDI, 0, 99, POP, 0, HLT>>
\* call a subroutine at 8 that prints a constant and returns
ProgCall == <<LDI, 0, 8, CALL, 0, PRN, 0, HLT, LDI, 1, 42, PRN, 1, RET>>
\* put a HALT opcode at address 254 and jump to it
ProgHaltHigh == <<LDI, 0, 1, PUSH, 0, LDI, 1, 254, JMP, 1>>
\* compare 12 > 0, overwrite the flags register, jump if equal
ProgFlags == <<LDI, 0, 12, CMP, 0, 1, LDI, 6, 1, JEQ, 0, 255, HLT>>
\* compare equal, load another register, jump if equal
ProgJeq == <<LDI, 0, 12, CMP, 1, 1, LDI, 1, 10, JEQ, 0, 255, HLT>>
\* compare 12 > 0, load another register, jump if not equal
ProgJne == <<LDI, 0, 12, CMP, 0, 1, LDI, 1, 10, JNE, 0, 255, HLT>>
\* jump past the end of memory
ProgFar == <<LDI, 0, 250, ADD, 0, 0, JMP, 0>>

\* the three outcomes of a comparison: 5 > 0, 0 < 5, 5 = 5
ProgCmp == <<LDI, 0, 5, CMP, 0, 1, CMP, 1, 0, CMP, 0, 0, HLT>>

\* register operand 8 given to POP, to CALL and to a conditional jump
ProgBadPop == <<POP, 8>>
ProgBadCall == <<CALL, 8>>
ProgBadJeq == <<JEQ, 8>>

\* jump through register 0 to a CALL through the stack pointer register
ProgCallSP == <<LDI, 0, 5, JMP, 0, CALL, 7>>

\* push 5 and 9, pop them into registers 2 and 3
ProgLifo == <<LDI, 0, 5, LDI, 1, 9, PUSH, 0, PUSH, 1, POP, 2, POP, 3, HLT>>

\* flags register loaded with 3 (EQ and GT bits), then jump if equal to 20
ProgFlagBits == <<LDI, 6, 3, LDI, 0, 20, JEQ, 0>>

Scenarios == {ProgTooLong, ProgFlagBits, ProgLifo, ProgCallSP, ProgSum, ProgWrap, ProgPushPop, ProgCall, ProgHaltHigh,
              ProgFlags, ProgJeq, ProgJne, ProgFar, ProgCmp,
              ProgBadPop, ProgBadCall, ProgBadJeq}

Programs == Progs(MaxInstrs) \cup Scenarios

\* the w binary digits of n, as a line of a program file holds them
RECURSIVE Bits(_, _)
Bits(n, w) == IF w = 0 THEN << >> ELSE Append(Bits(n \div 2, w - 1), n % 2)

\* the program file of a program: one line per byte, after one blank line
FileOf(prog) == << << >> >> \o [i \in 1..Len(prog) |-> Bits(prog[i], 8)]

(***************************************************************************)
(* State machine.                                                          *)
(***************************************************************************)
\* __init__
Init ==
  /\ ram = [a \in 0..(RamLen - 1) |-> 0]
  /\ reg = [[i \in 0..(RegLen - 1) |-> 0] EXCEPT ![RegIdx(0 - 1)] = RamLen - 1,
                                                 ![RegIdx(0 - 2)] = 0]
  /\ pc = 0
  /\ running = FALSE
  /\ out = << >>
  /\ status = "constructed"
  /\ hist = << >>
  /\ arg = "unread"

\* load() with a program file
Load ==
  /\ status = "constructed"
  /\ \E prog \in Programs :
       /\ ram' = load_lines(ram, FileOf(prog), 0)
       /\ status' = IF load_raises(ram, FileOf(prog), 0) THEN "IndexError"
                    ELSE "loaded"
  /\ arg' = "given"
  /\ UNCHANGED <<reg, pc, running, out, hist>>

\* load() without a program argument that forgets to store HLT
LoadNone_nohalt ==
  /\ status = "constructed"
  /\ ram' = ram
  /\ status' = "loaded"
  /\ arg' = "missing"
  /\ UNCHANGED <<reg, pc, running, out, hist>>

\* load() without a program argument
LoadNone ==
  /\ status = "constructed"
  /\ ram' = [ram EXCEPT ![0] = HLT]
  /\ status' = "loaded"
  /\ arg' = "missing"
  /\ UNCHANGED <<reg, pc, running, out, hist>>

\* run() up to the first test of the while loop
Run ==
  /\ status = "loaded"
  /\ running' = TRUE
  /\ status' = "run"
  /\ UNCHANGED <<ram, reg, pc, out, hist, arg>>

\* the object as the variables hold it
CPU == [ram |-> ram, reg |-> reg, pc |-> pc, running |-> running,
        out |-> out, exc |-> "none"]

\* what one cycle did: the record appended to hist
Event(name, c, r) ==
  [op |-> name, pcB |-> c.pc, pcA |-> r.pc, regB |-> c.reg, regA |-> r.reg,
   x |-> IF RamOK(c.pc + 1) THEN ram_read(c, c.pc + 1) ELSE 0,
   y |-> IF RamOK(c.pc + 2) THEN ram_read(c, c.pc + 2) ELSE 0,
   w |-> {a \in DOMAIN c.ram : r.ram[a] # c.ram[a]},
   exc |-> r.exc]

\* the variables after a cycle that left the object as r
Commit(name, r) ==
  /\ ram' = r.ram
  /\ reg' = r.reg
  /\ pc' = r.pc
  /\ running' = r.running
  /\ out' = r.out
  /\ status' = IF r.exc # "none" THEN r.exc
               ELSE IF r.running THEN "run" ELSE "returned"
  /\ hist' = Append(hist, Event(name, CPU, r))
  /\ arg' = arg

\* the while loop of run() is about to fetch
Fetching ==
  /\ status = "run"
  /\ running
  /\ Len(hist) < MaxCycles

\* the fetch self.ram[self.pc] succeeds and yields op
Fetched(op) ==
  /\ Fetching
  /\ RamOK(pc)
  /\ ram[RamIdx(pc)] = op

\* one cycle of run() whose fetched opcode is HLT
DoHLT ==
  /\ Fetched(HLT)
  /\ Commit("HLT", run_cycle(CPU))

\* one cycle of run() whose fetched opcode is LDI
DoLDI ==
  /\ Fetched(LDI)
  /\ Commit("LDI", run_cycle(CPU))

\* one cycle of run() whose fetched opcode is PRN
DoPRN ==
  /\ Fetched(PRN)
  /\ Commit("PRN", run_cycle(CPU))

\* one cycle of run() whose fetched opcode is MUL
DoMUL ==
  /\ Fetched(MUL)
  /\ Commit("MUL", run_cycle(CPU))

\* one cycle of run() whose fetched opcode is ADD
DoADD ==
  /\ Fetched(ADD)
  /\ Commit("ADD", run_cycle(CPU))

\* one cycle of run() whose fetched opcode is PUSH
DoPUSH ==
  /\ Fetched(PUSH)
  /\ Commit("PUSH", run_cycle(CPU))

\* one cycle of run() whose fetched opcode is POP
DoPOP ==
  /\ Fetched(POP)
  /\ Commit("POP", run_cycle(CPU))

\* one cycle of run() whose fetched opcode is CALL
DoCALL ==
  /\ Fetched(CALL)
  /\ Commit("CALL", run_cycle(CPU))

\* one cycle of run() whose fetched opcode is RET
DoRET ==
  /\ Fetched(RET)
  /\ Commit("RET", run_cycle(CPU))

\* one cycle of run() whose fetched opcode is CMP
DoCMP ==
  /\ Fetched(CMP)
  /\ Commit("CMP", run_cycle(CPU))

\* one cycle of run() whose fetched opcode is JMP
DoJMP ==
  /\ Fetched(JMP)
  /\ Commit("JMP", run_cycle(CPU))

\* one cycle of run() whose fetched opcode is JEQ
DoJEQ ==
  /\ Fetched(JEQ)
  /\ Commit("JEQ", run_cycle(CPU))

\* one cycle of run() whose fetched opcode is JNE
DoJNE ==
  /\ Fetched(JNE)
  /\ Commit("JNE", run_cycle(CPU))

\* one cycle whose fetched byte is not in the opcode table
DoUnknown ==
  /\ Fetching
  /\ RamOK(pc)
  /\ ram[RamIdx(pc)] \notin cmds
  /\ Commit("UNKNOWN", run_cycle(CPU))

\* one cycle whose fetch self.ram[self.pc] is out of range
DoFetchFault ==
  /\ Fetching
  /\ ~RamOK(pc)
  /\ Commit("FETCH", run_cycle(CPU))

\* a user of the class calls handle_sub() outside run(): no opcode is
\* registered for it, so this is the only way it is ever called.  An
\* IndexError it raises ends the program.
CallSub ==
  /\ status \in {"constructed", "loaded", "returned"}
  /\ Cardinality({i \in 1..Len(hist) : hist[i].op = "SUB"}) < MaxDirectCalls
  /\ LET r == handle_sub(CPU)
     IN /\ reg' = r.reg
        /\ pc' = r.pc
        /\ status' = IF r.exc # "none" THEN r.exc ELSE status
        /\ hist' = Append(hist, Event("SUB", CPU, r))
  /\ UNCHANGED <<ram, running, out, arg>>

Next ==
  \/ CallSub
  \/ Load
  \/ LoadNone
  \/ Run
  \/ DoHLT
  \/ DoLDI
  \/ DoPRN
  \/ DoMUL
  \/ DoADD
  \/ DoPUSH
  \/ DoPOP
  \/ DoCALL
  \/ DoRET
  \/ DoCMP
  \/ DoJMP
  \/ DoJEQ
  \/ DoJNE
  \/ DoUnknown
  \/ DoFetchFault

Spec == Init /\ [][Next]_vars

(***************************************************************************)
(* Runs of programs that fill memory, followed for LongCycles cycles.      *)
(***************************************************************************)
\* straight-line programs up to the end of memory, a loop, and the scenarios
LongPrograms ==
  { Repeat(<<PRN, 0>>, 128),
    Repeat(<<LDI, 0, 1>>, 85),
    Repeat(<<PUSH, 0>>, 128),
    Repeat(<<POP, 0>>, 128),
    Repeat(<<JEQ, 0>>, 128),
    Repeat(<<JNE, 0>>, 128),
    Repeat(<<CMP, 0, 1>>, 85),
    <<LDI, 1, 1>> \o Repeat(<<ADD, 0, 1>>, 84),
    <<LDI, 1, 1>> \o Repeat(<<MUL, 0, 1>>, 84),
    Repeat(<<PRN, 0>>, 50) \o <<HLT>> } \cup Scenarios

\* load() with the file of a long program
LoadLong ==
  /\ status = "constructed"
  /\ \E prog \in LongPrograms :
       /\ ram' = load_lines(ram, FileOf(prog), 0)
       /\ status' = IF load_raises(ram, FileOf(prog), 0) THEN "IndexError"
                    ELSE "loaded"
  /\ arg' = "given"
  /\ UNCHANGED <<reg, pc, running, out, hist>>

\* the name under which hist records a cycle of the object c
OpName(c) ==
  IF ~RamOK(c.pc) THEN "FETCH"
  ELSE LET command == c.ram[RamIdx(c.pc)] IN
    CASE command = HLT -> "HLT"
      [] command = LDI -> "LDI"
      [] command = PRN -> "PRN"
      [] command = MUL -> "MUL"
      [] command = ADD -> "ADD"
      [] command = PUSH -> "PUSH"
      [] command = POP -> "POP"
      [] command = CALL -> "CALL"
      [] command = RET -> "RET"
      [] command = CMP -> "CMP"
      [] command = JMP -> "JMP"
      [] command = JEQ -> "JEQ"
      [] command = JNE -> "JNE"
      [] OTHER -> "UNKNOWN"

\* one cycle of run(), whatever it fetches
CycleLong ==
  /\ status = "run"
  /\ running
  /\ Len(hist) < LongCycles
  /\ Commit(OpName(CPU), run_cycle(CPU))

NextLong ==
  \/ CallSub
  \/ LoadLong
  \/ Run
  \/ CycleLong

SpecLong == Init /\ [][NextLong]_vars

TypeOK ==
  /\ DOMAIN ram = 0..(RamLen - 1)
  /\ DOMAIN reg = 0..(RegLen - 1)
  /\ status \in {"constructed", "loaded", "run", "returned", "SystemExit", "IndexError"}

(***************************************************************************)
(* Reading the history of a run.                                           *)
(***************************************************************************)
Cycles == 1..Len(hist)

\* the object was driven by load() and run() alone: no user of the class
\* called handle_sub() on it
NoDirectCall == \A i \in Cycles : hist[i].op # "SUB"

\* the cycle ran its handler to the end
Completed(h) == h.exc = "none"

\* the register the first / second operand byte of the cycle selects
RegA(h) == RegIdx(h.x)
RegB(h) == RegIdx(h.y)

\* the stack pointer before / after the cycle
SPBefore(h) == h.regB[RegLen - 1]
SPAfter(h) == h.regA[RegLen - 1]

\* the flags register before / after the cycle
FLBefore(h) == h.regB[RegLen - 2]
FLAfter(h) == h.regA[RegLen - 2]

Byte == 0..255

\* memory starts with the bytes of prog
Holds(prog) == \A a \in 1..Len(prog) : ram[a - 1] = prog[a]

(***************************************************************************)
(* C1: after ADD a, b (MULTIPLY a, b) register a holds the old a plus      *)
(* (times) the old b, modulo 256, so a value in [0,256).                   *)
(***************************************************************************)
C1_ArithmeticWraps ==
  \A i \in Cycles :
    LET h == hist[i] IN
      /\ (h.op = "ADD" /\ Completed(h)) =>
           /\ h.regA[RegA(h)] = (h.regB[RegA(h)] + h.regB[RegB(h)]) % 256
           /\ h.regA[RegA(h)] \in Byte
      /\ (h.op = "MUL" /\ Completed(h)) =>
           /\ h.regA[RegA(h)] = (h.regB[RegA(h)] * h.regB[RegB(h)]) % 256
           /\ h.regA[RegA(h)] \in Byte

(***************************************************************************)
(* Conditional jumps and the comparison before them.                       *)
(***************************************************************************)
\* the completed COMPARE cycles before cycle i
CmpBefore(i) == {j \in 1..(i - 1) : hist[j].op = "CMP" /\ Completed(hist[j])}

\* the latest cycle of a non-empty set of cycles
Latest(S) == CHOOSE j \in S : \A k \in S : k <= j

\* the COMPARE of cycle h found its two register values equal
FoundEqual(h) == h.regB[RegA(h)] = h.regB[RegB(h)]

\* the jump of cycle h went to the value of its operand register
BranchTaken(h) == h.pcA = h.regB[RegA(h)]

\* the jump of cycle h went on to the next instruction
FellThrough(h) == h.pcA = h.pcB + 2

\* the conditional jump of cycle i did what the COMPARE of cycle j calls for
FollowsCompare(i, j) ==
  LET h == hist[i]
      wanted == IF h.op = "JEQ" THEN FoundEqual(hist[j]) ELSE ~FoundEqual(hist[j])
  IN IF wanted THEN BranchTaken(h) ELSE FellThrough(h)

\* no cycle strictly between j and i changed the flags register
FlagsKept(j, i) ==
  \A k \in (j + 1)..(i - 1) : FLAfter(hist[k]) = FLBefore(hist[k])

(***************************************************************************)
(* C2, as claimed: a completed JUMP_IF_EQUAL (JUMP_IF_NOT_EQUAL) takes the *)
(* branch iff the most recent COMPARE found (did not find) equality,       *)
(* whatever was executed in between.                                       *)
(***************************************************************************)
C2_Original ==
  \A i \in Cycles :
    (hist[i].op \in {"JEQ", "JNE"} /\ Completed(hist[i]) /\ CmpBefore(i) # {})
      => FollowsCompare(i, Latest(CmpBefore(i)))

(***************************************************************************)
(* C2, amended: a completed JUMP_IF_EQUAL (JUMP_IF_NOT_EQUAL) takes the    *)
(* branch iff the most recent COMPARE found (did not find) equality,       *)
(* provided no instruction executed in between changed register 6, the     *)
(* flags register.                                                         *)
(***************************************************************************)
C2_Amended ==
  \A i \in Cycles :
    (/\ hist[i].op \in {"JEQ", "JNE"}
     /\ Completed(hist[i])
     /\ CmpBefore(i) # {}
     /\ FlagsKept(Latest(CmpBefore(i)), i))
      => FollowsCompare(i, Latest(CmpBefore(i)))

\* a JUMP_IF_EQUAL that branched away after an equal COMPARE and another
\* instruction in between
C2_Witness ==
  \E i \in Cycles :
    /\ hist[i].op = "JEQ"
    /\ Completed(hist[i])
    /\ CmpBefore(i) # {}
    /\ Latest(CmpBefore(i)) < i - 1
    /\ FlagsKept(Latest(CmpBefore(i)), i)
    /\ FoundEqual(hist[Latest(CmpBefore(i))])
    /\ BranchTaken(hist[i])
    /\ ~FellThrough(hist[i])

(***************************************************************************)
(* C3: a push (PUSH, CALL) whose decremented stack pointer is outside      *)
(* [0,256), and a pop (POP, RETURN) whose stack pointer is outside         *)
(* [0,256), ends the run with an address error and reads or writes no      *)
(* memory cell.                                                            *)
(***************************************************************************)
C3_StackFaultDetected ==
  \A i \in Cycles :
    LET h == hist[i] IN
      /\ (h.op \in {"PUSH", "CALL"} /\ SPBefore(h) - 1 \notin Byte)
           => (h.exc = "IndexError" /\ h.w = {})
      /\ (h.op \in {"POP", "RET"} /\ SPBefore(h) \notin Byte)
           => (h.exc = "IndexError" /\ h.regA = h.regB /\ h.pcA = h.pcB)

\* cycles i < j are a PUSH and a POP of the same register with the stack
\* pointer and the cell pushed left alone in between
PushPopPair(i, j) ==
  /\ i < j
  /\ hist[i].op = "PUSH" /\ Completed(hist[i])
  /\ hist[j].op = "POP" /\ Completed(hist[j])
  /\ RegA(hist[i]) = RegA(hist[j])
  /\ \A k \in (i + 1)..(j - 1) :
       /\ SPAfter(hist[k]) = SPBefore(hist[k])
       /\ RamIdx(SPAfter(hist[i])) \notin hist[k].w

(***************************************************************************)
(* C4: a completed PUSH r and a later completed POP r, with no cycle in    *)
(* between changing the stack pointer or the stack cell, leave r with the  *)
(* value it held at the PUSH and the stack pointer as it was before the    *)
(* PUSH.                                                                   *)
(***************************************************************************)
C4_PushPopRoundTrip ==
  \A i \in Cycles : \A j \in Cycles :
    PushPopPair(i, j) =>
      /\ hist[j].regA[RegA(hist[i])] = hist[i].regB[RegA(hist[i])]
      /\ SPAfter(hist[j]) = SPBefore(hist[i])

\* register 0 = 5 pushed, overwritten with 99 in between, popped as 5
C4_Witness ==
  \E i \in Cycles : \E j \in Cycles :
    /\ PushPopPair(i, j)
    /\ i + 1 < j
    /\ hist[i].regB[RegA(hist[i])] = 5
    /\ hist[j].regB[RegA(hist[i])] = 99
    /\ hist[j].regA[RegA(hist[i])] = 5

\* cycles i < j are a CALL and the RETURN that balances it
CallRetPair(i, j) ==
  /\ i < j
  /\ hist[i].op = "CALL" /\ Completed(hist[i])
  /\ hist[j].op = "RET" /\ Completed(hist[j])
  /\ SPBefore(hist[j]) = SPAfter(hist[i])
  /\ \A k \in (i + 1)..(j - 1) : RamIdx(SPAfter(hist[i])) \notin hist[k].w

\* the number of cycles of the run that fetched at address a
TimesAt(a) == Cardinality({k \in Cycles : hist[k].pcB = a})

(***************************************************************************)
(* C5: a completed CALL at address p and a later completed RETURN that     *)
(* finds the stack pointer where the CALL left it and the cell untouched   *)
(* resume at p + 2; the next cycle executes the instruction at p + 2, and  *)
(* the program that calls a printing subroutine executes it exactly once.  *)
(***************************************************************************)
C5_CallReturnResumes ==
  /\ \A i \in Cycles : \A j \in Cycles :
       CallRetPair(i, j) =>
         /\ hist[j].pcA = hist[i].pcB + 2
         /\ j < Len(hist) => hist[j + 1].pcB = hist[i].pcB + 2
  /\ (Holds(ProgCall) /\ status = "returned") =>
       /\ TimesAt(5) = 1
       /\ out = <<42, 8>>

\* the run of the program with the printing subroutine, ended by its HALT
C5_Witness ==
  /\ Holds(ProgCall)
  /\ status = "returned"
  /\ \E i \in Cycles : \E j \in Cycles :
       CallRetPair(i, j) /\ i + 1 < j /\ hist[i].pcB = 3 /\ hist[j].pcA = 5

(***************************************************************************)
(* C6: a completed COMPARE a, b leaves the flags register equal to exactly *)
(* one of EQ = 1, GT = 2, LT = 4: EQ iff the values are equal, GT iff the  *)
(* first is greater, LT iff the first is less.                             *)
(***************************************************************************)
C6_CompareSetsOneFlag ==
  \A i \in Cycles :
    LET h == hist[i]
        va == h.regB[RegA(h)]
        vb == h.regB[RegB(h)]
    IN (h.op = "CMP" /\ Completed(h)) =>
         /\ FLAfter(h) \in {1, 2, 4}
         /\ FLAfter(h) = 1 <=> va = vb
         /\ FLAfter(h) = 2 <=> va > vb
         /\ FLAfter(h) = 4 <=> va < vb

\* one run in which COMPARE produced each of the three outcomes
C6_Witness ==
  /\ \E i \in Cycles : hist[i].op = "CMP" /\ FLAfter(hist[i]) = 1
  /\ \E i \in Cycles : hist[i].op = "CMP" /\ FLAfter(hist[i]) = 2
  /\ \E i \in Cycles : hist[i].op = "CMP" /\ FLAfter(hist[i]) = 4

(***************************************************************************)
(* C7: a cycle that fetches a byte outside the opcode table ends the run   *)
(* with exit status 1; it changes no register, no memory cell and not the  *)
(* program counter, and it is the last cycle of the run.                   *)
(***************************************************************************)
C7_UnknownOpcodeStops ==
  \A i \in Cycles :
    LET h == hist[i] IN
      (h.op = "UNKNOWN") =>
        /\ h.exc = "SystemExit"
        /\ h.regA = h.regB
        /\ h.w = {}
        /\ h.pcA = h.pcB
        /\ i = Len(hist)
        /\ status = "SystemExit"
        /\ ~running

\* the byte 255 fetched after some instructions were executed
C7_Witness ==
  /\ Len(hist) > 1
  /\ hist[Len(hist)].op = "UNKNOWN"
  /\ RamOK(pc)
  /\ ram[RamIdx(pc)] = 255
  /\ status = "SystemExit"

(***************************************************************************)
(* C8: a cycle that fetches the HALT opcode at an address in [0,256) stops *)
(* the loop cleanly: running becomes false, no error is raised, and no     *)
(* further cycle is executed.                                              *)
(***************************************************************************)
C8_HaltStopsCleanly ==
  \A i \in Cycles :
    LET h == hist[i] IN
      (h.op = "HLT" /\ h.pcB \in Byte) =>
        /\ h.exc = "none"
        /\ i = Len(hist)
        /\ status = "returned"
        /\ ~running

(***************************************************************************)
(* C9: the stack pointer, register 7, is always in [0,256).                *)
(***************************************************************************)
C9_StackPointerInRange == reg[RegLen - 1] \in Byte

(***************************************************************************)
(* C10: every memory cell always holds a value in [0,256).                 *)
(***************************************************************************)
C10_MemoryCellsAreBytes == \A a \in DOMAIN ram : ram[a] \in Byte

(***************************************************************************)
(* C11: the program LDI 0,8; LDI 1,9; ADD 0,1; PRN 0; HLT runs LDI, LDI,   *)
(* ADD, PRN, HLT and no other cycle, prints 17 and nothing else, and ends  *)
(* by HALT without an error, when the object is driven by load() and run() *)
(* alone.                                                                  *)
(***************************************************************************)
C11_SumProgramPrints17 ==
  (arg = "given" /\ Holds(ProgSum) /\ NoDirectCall) =>
    /\ Len(hist) <= 5
    /\ \A i \in Cycles :
         /\ hist[i].op = <<"LDI", "LDI", "ADD", "PRN", "HLT">>[i]
         /\ Completed(hist[i])
    /\ out = IF Len(hist) >= 4 THEN <<17>> ELSE << >>
    /\ status = "run" => Len(hist) < 5
    /\ status \in {"returned", "SystemExit", "IndexError"} =>
         (status = "returned" /\ Len(hist) = 5 /\ out = <<17>>)

\* the run of that program, ended after its fifth cycle
C11_Witness ==
  /\ arg = "given"
  /\ Holds(ProgSum)
  /\ status = "returned"
  /\ Len(hist) = 5
  /\ hist[3].regA[0] = 17
  /\ out = <<17>>

(***************************************************************************)
(* C13: after load() without a program argument, run() executes one cycle  *)
(* and no more: HALT at address 0, ending the run without an error and     *)
(* with every register, the stack pointer included, at its initial value,  *)
(* when the object is driven by load() and run() alone.                    *)
(***************************************************************************)
\* the registers as __init__ leaves them
InitialRegisters == [i \in 0..(RegLen - 1) |-> IF i = RegLen - 1 THEN RamLen - 1 ELSE 0]

C13_NoProgramHaltsAtOnce ==
  (arg = "missing" /\ NoDirectCall) =>
    /\ reg = InitialRegisters
    /\ status = "run" => hist = << >>
    /\ Len(hist) <= 1
    /\ Len(hist) = 1 =>
         /\ hist[1].op = "HLT"
         /\ hist[1].pcB = 0
         /\ Completed(hist[1])
         /\ status = "returned"
         /\ ~running
         /\ out = << >>

\* the run without a program, ended by its one HALT cycle
C13_Witness ==
  /\ arg = "missing"
  /\ status = "returned"
  /\ Len(hist) = 1
  /\ hist[1].op = "HLT"
  /\ reg = InitialRegisters

(***************************************************************************)
(* C12: a cycle whose opcode takes a register operand and whose operand    *)
(* byte is outside [0,8) ends the run with an error and changes no         *)
(* register, no memory cell and not the program counter.                   *)
(***************************************************************************)
\* the register indices of the file
RegisterIndex == 0..(RegLen - 1)

\* the cycle decodes a register operand outside the register file
BadRegisterOperand(h) ==
  \/ h.op \in {"LDI", "PRN", "PUSH", "POP", "CALL", "JMP", "JEQ", "JNE"}
       /\ h.x \notin RegisterIndex
  \/ h.op \in {"ADD", "MUL", "CMP"}
       /\ (h.x \notin RegisterIndex \/ h.y \notin RegisterIndex)

C12_BadRegisterNoEffect ==
  \A i \in Cycles :
    LET h == hist[i] IN
      BadRegisterOperand(h) =>
        /\ h.exc = "IndexError"
        /\ h.regA = h.regB
        /\ h.w = {}
        /\ h.pcA = h.pcB
        /\ i = Len(hist)

(***************************************************************************)
(* Steps of the dispatch loop, read from the variables before and after.   *)
(***************************************************************************)
\* the step is a cycle that fetched opcode op and ran its handler to the end
CompletedCycleOf(op) ==
  /\ Fetched(op)
  /\ Len(hist') = Len(hist) + 1
  /\ status' \in {"run", "returned"}

\* the register selected by the operand byte at pc + 1
OperandRegister == RegIdx(ram[RamIdx(pc + 1)])

(***************************************************************************)
(* C14: a completed cycle moves the program counter by the width of its    *)
(* instruction and no more: HALT by 1; PRINT, PUSH, POP and a conditional  *)
(* jump not taken by 2; LOAD_IMMEDIATE, ADD, MULTIPLY, COMPARE by 3; JUMP, *)
(* a conditional jump taken, CALL and RETURN leave it at their target.     *)
(***************************************************************************)
C14_PcAdvancesByWidth ==
  [][ /\ CompletedCycleOf(HLT) => pc' = pc + 1
      /\ \A op \in {PRN, PUSH, POP} : CompletedCycleOf(op) => pc' = pc + 2
      /\ \A op \in {LDI, ADD, MUL, CMP} : CompletedCycleOf(op) => pc' = pc + 3
      /\ \A op \in {JEQ, JNE} :
           CompletedCycleOf(op) => (pc' = pc + 2 \/ pc' = reg[OperandRegister])
      /\ CompletedCycleOf(JMP) => pc' = reg[OperandRegister]
      /\ CompletedCycleOf(CALL) => pc' = reg'[OperandRegister]
      /\ CompletedCycleOf(RET) => pc' = ram[RamIdx(reg[RegLen - 1])]
    ]_vars

\* a run ended by HALT that also completed LDI, CALL, PRN and RET cycles
C14_Witness ==
  /\ status = "returned"
  /\ \A i \in Cycles : Completed(hist[i])
  /\ {"LDI", "CALL", "PRN", "RET", "HLT"} \subseteq {hist[i].op : i \in Cycles}
  /\ pc = hist[Len(hist)].pcB + 1

(***************************************************************************)
(* C15: a completed JUMP, conditional jump taken, or CALL with operand     *)
(* byte k leaves the program counter at the value register k holds, not at *)
(* k; for CALL it is the value register k holds after the return address   *)
(* was pushed.                                                             *)
(***************************************************************************)
\* the code's test sends the conditional jump of cycle h to its target
TakenByFlag(h) ==
  \/ h.op = "JEQ" /\ FLBefore(h) = 1
  \/ h.op = "JNE" /\ FLBefore(h) # 1

C15_JumpsAreIndirect ==
  \A i \in Cycles :
    LET h == hist[i] IN
      Completed(h) =>
        /\ h.op = "JMP" => h.pcA = h.regB[RegA(h)]
        /\ (h.op \in {"JEQ", "JNE"} /\ (TakenByFlag(h) \/ ~FellThrough(h)))
             => h.pcA = h.regB[RegA(h)]
        /\ h.op = "CALL" => h.pcA = h.regA[RegA(h)]

\* a JUMP through register 0 to address 5 and a CALL through register 7 that
\* lands on the decremented stack pointer
C15_Witness ==
  /\ \E i \in Cycles :
       /\ hist[i].op = "JMP" /\ Completed(hist[i])
       /\ hist[i].x = 0 /\ hist[i].pcA = 5
  /\ \E i \in Cycles :
       /\ hist[i].op = "CALL" /\ Completed(hist[i])
       /\ hist[i].x = 7
       /\ hist[i].pcA = SPBefore(hist[i]) - 1

(***************************************************************************)
(* The run of the program that pushes 5 and 9 from the initial stack       *)
(* pointer 255 and pops twice: the first PUSH stores at 254 and leaves the *)
(* stack pointer at 254; the pops return 9, then 5, and the stack pointer  *)
(* is 255 again.                                                           *)
(***************************************************************************)
LifoScenario ==
  (arg = "given" /\ Holds(ProgLifo) /\ NoDirectCall) =>
    /\ Len(hist) >= 3 =>
         /\ hist[3].op = "PUSH"
         /\ SPBefore(hist[3]) = 255
         /\ SPAfter(hist[3]) = 254
         /\ hist[3].w = {254}
    /\ Len(hist) = 3 => ram[254] = 5
    /\ status \in {"returned", "SystemExit", "IndexError"} =>
         /\ status = "returned"
         /\ Len(hist) = 7
         /\ reg[2] = 9
         /\ reg[3] = 5
         /\ reg[RegLen - 1] = 255

(***************************************************************************)
(* C16: a completed push (PUSH, CALL) decrements the stack pointer and     *)
(* writes its value at the new stack-pointer address; a completed pop      *)
(* (POP, RETURN) yields the cell at the stack pointer and then increments  *)
(* it.  From stack pointer 255 the first PUSH stores at 254, and two       *)
(* pushes followed by two pops return the values last-in first-out with    *)
(* the stack pointer back at 255 (the object driven by load() and run()    *)
(* alone).                                                                 *)
(***************************************************************************)
C16_StackDiscipline ==
  [][ /\ CompletedCycleOf(PUSH) =>
           /\ reg' = [reg EXCEPT ![RegLen - 1] = reg[RegLen - 1] - 1]
           /\ ram' = [ram EXCEPT ![RamIdx(reg[RegLen - 1] - 1)] = reg[OperandRegister]]
      /\ CompletedCycleOf(CALL) =>
           /\ reg' = [reg EXCEPT ![RegLen - 1] = reg[RegLen - 1] - 1]
           /\ ram' = [ram EXCEPT ![RamIdx(reg[RegLen - 1] - 1)] = pc + 2]
      /\ CompletedCycleOf(POP) =>
           /\ reg' = [[reg EXCEPT ![RegLen - 1] = reg[RegLen - 1] + 1]
                        EXCEPT ![OperandRegister] = ram[RamIdx(reg[RegLen - 1])]]
           /\ ram' = ram
      /\ CompletedCycleOf(RET) =>
           /\ reg' = [reg EXCEPT ![RegLen - 1] = reg[RegLen - 1] + 1]
           /\ pc' = ram[RamIdx(reg[RegLen - 1])]
           /\ ram' = ram
      /\ LifoScenario'
    ]_vars

\* the run of the two-push, two-pop program, ended by its HALT
C16_Witness ==
  /\ arg = "given"
  /\ NoDirectCall
  /\ Holds(ProgLifo)
  /\ status = "returned"
  /\ hist[3].w = {254}
  /\ hist[5].op = "POP" /\ hist[6].op = "POP"
  /\ reg[2] = 9 /\ reg[3] = 5
  /\ reg[RegLen - 1] = 255

(***************************************************************************)
(* C17: a completed JUMP_IF_EQUAL branches iff bit 0 of the flags register *)
(* is set and a completed JUMP_IF_NOT_EQUAL branches iff that bit is       *)
(* clear, whatever value register 6 holds; otherwise the program counter   *)
(* advances by 2.                                                          *)
(***************************************************************************)
\* bit 0 of the flags register before the cycle
EqBitSet(h) == FLBefore(h) % 2 = 1

C17_BranchOnEqBit ==
  \A i \in Cycles :
    LET h == hist[i] IN
      (h.op \in {"JEQ", "JNE"} /\ Completed(h)) =>
        IF (h.op = "JEQ") = EqBitSet(h) THEN BranchTaken(h) ELSE FellThrough(h)

(***************************************************************************)
(* C18: a cycle whose opcode is not PUSH or CALL, the cycle of an unknown  *)
(* opcode included, changes no memory cell; a PUSH or CALL cycle changes   *)
(* at most the one cell addressed by the decremented stack pointer.        *)
(***************************************************************************)
C18_MemoryWrittenOnlyByPush ==
  \A i \in Cycles :
    LET h == hist[i] IN
      IF h.op \in {"PUSH", "CALL"} /\ RamOK(SPBefore(h) - 1)
      THEN h.w \subseteq {RamIdx(SPBefore(h) - 1)}
      ELSE h.w = {}

\* a PUSH that changed cell 254 and nothing else, then a POP and a HALT that
\* changed nothing
C18_Witness ==
  /\ status = "returned"
  /\ \E i \in Cycles : \E j \in Cycles :
       /\ i < j
       /\ hist[i].op = "PUSH" /\ hist[i].w = {254}
       /\ hist[j].op = "POP" /\ Completed(hist[j]) /\ hist[j].w = {}
  /\ hist[Len(hist)].op = "HLT"

(***************************************************************************)
(* C19: in a run that has executed no control transfer (JUMP, CALL,        *)
(* RETURN, a conditional jump taken), of an object driven by load() and    *)
(* run() alone, every cycle that completes moves the *)
(* program counter strictly forward, a cycle that does not complete is the *)
(* last one, ended by an unknown opcode or an out-of-range access, a       *)
(* return from run() comes from HALT, and there are at most 256 cycles.    *)
(***************************************************************************)
\* the cycle is a control transfer
Transfer(h) ==
  \/ h.op \in {"JMP", "CALL", "RET"}
  \/ h.op \in {"JEQ", "JNE"} /\ TakenByFlag(h)

C19_StraightLineRunEnds ==
  (NoDirectCall /\ \A i \in Cycles : ~Transfer(hist[i])) =>
    /\ \A i \in Cycles :
         IF Completed(hist[i]) THEN hist[i].pcA > hist[i].pcB
         ELSE i = Len(hist) /\ status \in {"SystemExit", "IndexError"}
    /\ status = "returned" => hist[Len(hist)].op = "HLT"
    /\ Len(hist) <= 256

\* a run of 128 cycles without a control transfer, ended at the end of memory
C19_Witness ==
  /\ NoDirectCall
  /\ \A i \in Cycles : ~Transfer(hist[i])
  /\ Len(hist) = 128
  /\ hist[127].pcA = 254
  /\ status = "IndexError"

====
